---- MODULE Spec2Model ----
(***************************************************************************)
(* Model of DynamixelUtils.h: the v1 checksum, the v2 CRC-16 and its       *)
(* lookup table, and the three plain structs DynamixelAccessData,          *)
(* DynamixelMotorData and DynamixelPacket.                                  *)
(***************************************************************************)
EXTENDS Integers, Sequences, FiniteSets, TLC

VARIABLES
    packet_to_check,   \* the buffer handed to v1Checksum / crc_compute
    checksum,          \* value returned by v1Checksum, None before the call
    crc,               \* value returned by crc_compute, None before the call
    other,             \* a second buffer of the same caller (pair runs only)
    crcOther,          \* crc_compute of the second buffer, None before the call
    idx,               \* index of a crc_table read
    entry,             \* value read from crc_table[idx], None before the read
    heap,              \* per buffer: "free" (never allocated), "allocated", "released"
    releases,          \* per buffer: number of delete[] executed on it
    packets,           \* per DynamixelPacket object: its state and its fields
    packetArgs,        \* per DynamixelPacket object: the arguments its constructor got
    access,            \* per DynamixelAccessData object: None or a record
    accessArgs,        \* per DynamixelAccessData object: the constructor arguments
    motor,             \* the DynamixelMotorData object: None or a record
    motorArgs,         \* the arguments the DynamixelMotorData constructor got
    lastSetID,         \* the ID given at construction or by the last set-ID operation
    lastWrittenID      \* the ID given by the last write of motorID of any kind

vars == <<packet_to_check, checksum, crc, other, crcOther, idx, entry,
          heap, releases, packets, packetArgs,
          access, accessArgs, motor, motorArgs, lastSetID, lastWrittenID>>

checksumVars == <<packet_to_check, checksum, crc, other, crcOther>>
tableVars == <<idx, entry>>
packetVars == <<heap, releases, packets, packetArgs>>
motorVars == <<access, accessArgs, motor, motorArgs, lastSetID, lastWrittenID>>

(***************************************************************************)
(* Bounds of the model.                                                    *)
(***************************************************************************)
MaxLen == 5          \* longest buffer given to v1Checksum
MaxCrcLen == 4       \* longest buffer given to crc_compute
MaxPairLen == 3      \* longest buffer of a pair differing in one byte
MaxPad == 3          \* most zero bytes prepended to a buffer
NumBuffers == 2      \* heap buffers a packet builder can allocate
NumPackets == 3      \* DynamixelPacket objects that can come to exist
NumAccess == 2       \* DynamixelAccessData objects that can come to exist

\* Byte values the buffers are drawn from.
Bytes == {0, 1, 2, 3, 253, 255}

\* A result or an object that may not exist yet: None, or Some(v) holding v.
None == <<>>
Some(v) == <<v>>
Val(o) == o[1]

\* Every buffer over Bytes of length lo..hi.
Buffers(lo, hi) == UNION {[1..n -> Bytes] : n \in lo..hi}

(***************************************************************************)
(* C integer arithmetic.                                                   *)
(***************************************************************************)
\* Width of int, the type of tempSum and of the promoted operands: the least
\* width C++ allows, that of the 8-bit Arduino boards.  Every result below is
\* cut to 8 or 16 bits, so a wider int gives the same values.
IntBits == 16

RECURSIVE BitXor(_, _)
\* a ^ b on non-negative operands.
BitXor(a, b) ==
    IF a = 0 THEN b
    ELSE IF b = 0 THEN a
    ELSE ((a + b) % 2) + 2 * BitXor(a \div 2, b \div 2)

RECURSIVE BitAnd(_, _)
\* a & b on non-negative operands.
BitAnd(a, b) ==
    IF a = 0 \/ b = 0 THEN 0
    ELSE ((a % 2) * (b % 2)) + 2 * BitAnd(a \div 2, b \div 2)

\* ~a on a two's complement int.
BitNot(a) == -a - 1

\* The bit pattern of an int, as a non-negative number.
IntBitsOf(a) == a % (2 ^ IntBits)

\* a << n on an unsigned short promoted to (unsigned) int: bits shifted past
\* the width are dropped.
Shl(a, n) == (a * (2 ^ n)) % (2 ^ IntBits)

\* a >> n on a non-negative operand.
Shr(a, n) == a \div (2 ^ n)

\* Conversion to unsigned char (the return of v1Checksum).
ToUChar(a) == a % 256

\* Conversion to unsigned short (the assignment to crc_accum).
ToUShort(a) == a % 65536

(***************************************************************************)
(* crc_table, DynamixelUtils.h lines 148-181.                              *)
(***************************************************************************)
crc_table == <<
    0,32773,32783,10,32795,30,20,32785,
    32819,54,60,32825,40,32813,32807,34,
    32867,102,108,32873,120,32893,32887,114,
    80,32853,32863,90,32843,78,68,32833,
    32963,198,204,32969,216,32989,32983,210,
    240,33013,33023,250,33003,238,228,32993,
    160,32933,32943,170,32955,190,180,32945,
    32915,150,156,32921,136,32909,32903,130,
    33155,390,396,33161,408,33181,33175,402,
    432,33205,33215,442,33195,430,420,33185,
    480,33253,33263,490,33275,510,500,33265,
    33235,470,476,33241,456,33229,33223,450,
    320,33093,33103,330,33115,350,340,33105,
    33139,374,380,33145,360,33133,33127,354,
    33059,294,300,33065,312,33085,33079,306,
    272,33045,33055,282,33035,270,260,33025,
    33539,774,780,33545,792,33565,33559,786,
    816,33589,33599,826,33579,814,804,33569,
    864,33637,33647,874,33659,894,884,33649,
    33619,854,860,33625,840,33613,33607,834,
    960,33733,33743,970,33755,990,980,33745,
    33779,1014,1020,33785,1000,33773,33767,994,
    33699,934,940,33705,952,33725,33719,946,
    912,33685,33695,922,33675,910,900,33665,
    640,33413,33423,650,33435,670,660,33425,
    33459,694,700,33465,680,33453,33447,674,
    33507,742,748,33513,760,33533,33527,754,
    720,33493,33503,730,33483,718,708,33473,
    33347,582,588,33353,600,33373,33367,594,
    624,33397,33407,634,33387,622,612,33377,
    544,33317,33327,554,33339,574,564,33329,
    33299,534,540,33305,520,33293,33287,514 >>

\* TableAt with the second entry mistyped (0x8004 for 0x8005).
TableAtTypo(i) == IF i = 1 THEN 32772 ELSE crc_table[i + 1]

\* crc_table[i], the array being indexed from 0.
TableAt(i) == crc_table[i + 1]

(***************************************************************************)
(* v1Checksum, lines 190-199.                                              *)
(***************************************************************************)
RECURSIVE v1Sum(_, _, _, _)
\* The for loop of v1Checksum at index i with accumulator tempSum.  For the
\* buffers of this model (at most MaxLen + 1 bytes of at most 255) the sum
\* stays far below the largest int, 2^(IntBits - 1) - 1, so it never overflows.
v1Sum(packet, packet_size, i, tempSum) ==
    IF i < packet_size
    THEN v1Sum(packet, packet_size, i + 1, tempSum + packet[i + 1])
    ELSE tempSum

\* v1Checksum returning the two's complement (-sum) of the sum.
v1ChecksumTwosComplement(packet, packet_size) ==
    ToUChar(BitAnd(IntBitsOf(-v1Sum(packet, packet_size, 0, 0)), 255))

\* v1Checksum returning the masked sum, the complement forgotten.
v1ChecksumNoComplement(packet, packet_size) ==
    ToUChar(BitAnd(IntBitsOf(v1Sum(packet, packet_size, 0, 0)), 255))

v1Checksum(packet, packet_size) ==
    ToUChar(BitAnd(IntBitsOf(BitNot(v1Sum(packet, packet_size, 0, 0))), 255))

(***************************************************************************)
(* crc_compute, lines 209-221.                                             *)
(***************************************************************************)
\* One iteration of the loop of crc_compute on byte b.
crcStep(crc_accum, b) ==
    LET i == BitAnd(BitXor(Shr(crc_accum, 8), b), 255)
    IN  ToUShort(BitXor(Shl(crc_accum, 8), TableAt(i)))

RECURSIVE crcLoop(_, _, _, _)
\* The for loop of crc_compute at index j with accumulator crc_accum.
crcLoop(packet, packet_size, j, crc_accum) ==
    IF j < packet_size
    THEN crcLoop(packet, packet_size, j + 1, crcStep(crc_accum, packet[j + 1]))
    ELSE crc_accum

\* crc_compute with the accumulator started at 0xFFFF instead of 0.
crc_computeInitOnes(packet, packet_size) == crcLoop(packet, packet_size, 0, 65535)

RECURSIVE crc_computeLowIndex(_, _)
\* crc_compute with the index taken from the low byte of the accumulator.
crc_computeLowIndex(packet, packet_size) ==
    IF packet_size = 0 THEN 0
    ELSE LET acc == crc_computeLowIndex(packet, packet_size - 1)
             i == BitAnd(BitXor(acc, packet[packet_size]), 255)
         IN  ToUShort(BitXor(Shl(acc, 8), TableAt(i)))

\* crc_compute with the loop started at the second byte.
crc_computeSkipFirst(packet, packet_size) == crcLoop(packet, packet_size, 1, 0)

crc_compute(packet, packet_size) == crcLoop(packet, packet_size, 0, 0)

(***************************************************************************)
(* Initial values of the parts a specification leaves alone.               *)
(***************************************************************************)
TableIdle ==
    /\ idx = 0
    /\ entry = None

NoPacket == [state |-> "none", packet |-> 0, packetSize |-> 0, responseSize |-> 0]

PacketIdle ==
    /\ heap = [b \in 1..NumBuffers |-> "free"]
    /\ releases = [b \in 1..NumBuffers |-> 0]
    /\ packets = [p \in 1..NumPackets |-> NoPacket]
    /\ packetArgs = [p \in 1..NumPackets |-> None]

MotorIdle ==
    /\ access = [d \in 1..NumAccess |-> None]
    /\ accessArgs = [d \in 1..NumAccess |-> None]
    /\ motor = None
    /\ motorArgs = None
    /\ lastSetID = None
    /\ lastWrittenID = None

\* The checksum state of a caller holding one buffer out of S.
ChecksumInit(S) ==
    /\ packet_to_check \in S
    /\ checksum = None
    /\ crc = None
    /\ other = <<>>
    /\ crcOther = None

(***************************************************************************)
(* A caller of v1Checksum.                                                 *)
(***************************************************************************)
InitV1 == ChecksumInit(Buffers(0, MaxLen)) /\ TableIdle /\ PacketIdle /\ MotorIdle

\* checksum = v1Checksum(packet_to_check, length of the buffer)
CallV1Checksum ==
    /\ checksum = None
    /\ checksum' = Some(v1Checksum(packet_to_check, Len(packet_to_check)))
    /\ UNCHANGED <<packet_to_check, crc, other, crcOther>>
    /\ UNCHANGED <<tableVars, packetVars, motorVars>>

NextV1 == CallV1Checksum

SpecV1 == InitV1 /\ [][NextV1]_vars

(***************************************************************************)
(* A caller of crc_compute.                                                *)
(***************************************************************************)
InitCrc == ChecksumInit(Buffers(0, MaxCrcLen)) /\ TableIdle /\ PacketIdle /\ MotorIdle

\* crc = crc_compute(packet_to_check, length of the buffer)
CallCrcCompute ==
    /\ crc = None
    /\ crc' = Some(crc_compute(packet_to_check, Len(packet_to_check)))
    /\ UNCHANGED <<packet_to_check, checksum, other, crcOther>>
    /\ UNCHANGED <<tableVars, packetVars, motorVars>>

NextCrc == CallCrcCompute

SpecCrc == InitCrc /\ [][NextCrc]_vars

(***************************************************************************)
(* A caller of crc_compute holding two buffers of one length that differ   *)
(* in exactly one byte.                                                    *)
(***************************************************************************)
\* The buffers that differ from s in exactly one position.
OneByteChanged(s) ==
    {[s EXCEPT ![k] = b] : k \in 1..Len(s), b \in Bytes} \ {s}

InitPair ==
    /\ packet_to_check \in Buffers(1, MaxPairLen)
    /\ other \in OneByteChanged(packet_to_check)
    /\ checksum = None
    /\ crc = None
    /\ crcOther = None
    /\ TableIdle /\ PacketIdle /\ MotorIdle

\* crcOther = crc_compute(other, length of the buffer)
CallCrcComputeOther ==
    /\ other # <<>>
    /\ crcOther = None
    /\ crcOther' = Some(crc_compute(other, Len(other)))
    /\ UNCHANGED <<packet_to_check, checksum, crc, other>>
    /\ UNCHANGED <<tableVars, packetVars, motorVars>>

NextPair ==
    \/ CallCrcCompute
    \/ CallCrcComputeOther

SpecPair == InitPair /\ [][NextPair]_vars

(***************************************************************************)
(* A read of one entry of crc_table.                                       *)
(***************************************************************************)
InitTable ==
    /\ idx \in 0..255
    /\ entry = None
    /\ ChecksumInit({<<>>}) /\ PacketIdle /\ MotorIdle

\* entry = crc_table[idx]
ReadTable ==
    /\ entry = None
    /\ entry' = Some(TableAt(idx))
    /\ UNCHANGED <<idx, checksumVars, packetVars, motorVars>>

NextTable == ReadTable

SpecTable == InitTable /\ [][NextTable]_vars

(***************************************************************************)
(* enum dynamixelV2, lines 21-33.                                          *)
(***************************************************************************)
minPacketLenght == 12

(***************************************************************************)
(* struct DynamixelPacket, lines 120-135.  A buffer is named by its number *)
(* on the heap; the struct holds the number as its pointer.                *)
(***************************************************************************)
\* uint8_t lengths the packet builders pass.
Lengths == {0, 11, 12}
ResponseLengths == {11}

\* The two-argument constructor refusing to go below the minimum length.
DynamixelPacket2Clamped(packet, length) ==
    [state |-> "live", packet |-> packet,
     packetSize |-> IF length < minPacketLenght THEN minPacketLenght ELSE length,
     responseSize |-> 0]

\* DynamixelPacket(const unsigned char* packet, uint8_t length)
DynamixelPacket2(packet, length) ==
    [state |-> "live", packet |-> packet, packetSize |-> length, responseSize |-> 0]

\* DynamixelPacket(const unsigned char* packet, uint8_t length, uint8_t responseLength)
DynamixelPacket3(packet, length, responseLength) ==
    [state |-> "live", packet |-> packet, packetSize |-> length,
     responseSize |-> responseLength]

\* The implicitly declared copy constructor: every member is copied, the
\* pointer included.
DynamixelPacketCopy(src) ==
    [state |-> "live", packet |-> src.packet, packetSize |-> src.packetSize,
     responseSize |-> src.responseSize]

\* Objects come to exist in the order of their numbers.
NextFree(objs, none) == {p \in DOMAIN objs : objs[p] = none /\ \A q \in 1..(p - 1) : objs[q] # none}

\* A builder allocates buffer b and constructs packet p without a response.
ConstructNoResponse(p, b, length) ==
    /\ p \in NextFree(packets, NoPacket)
    /\ heap[b] = "free"
    /\ heap' = [heap EXCEPT ![b] = "allocated"]
    /\ packets' = [packets EXCEPT ![p] = DynamixelPacket2(b, length)]
    /\ packetArgs' = [packetArgs EXCEPT ![p] =
                          Some([variant |-> "A", length |-> length, responseLength |-> 0])]
    /\ UNCHANGED releases
    /\ UNCHANGED <<checksumVars, tableVars, motorVars>>

\* A builder allocates buffer b and constructs packet p with a response size.
ConstructWithResponse(p, b, length, responseLength) ==
    /\ p \in NextFree(packets, NoPacket)
    /\ heap[b] = "free"
    /\ heap' = [heap EXCEPT ![b] = "allocated"]
    /\ packets' = [packets EXCEPT ![p] = DynamixelPacket3(b, length, responseLength)]
    /\ packetArgs' = [packetArgs EXCEPT ![p] =
                          Some([variant |-> "B", length |-> length,
                                responseLength |-> responseLength])]
    /\ UNCHANGED releases
    /\ UNCHANGED <<checksumVars, tableVars, motorVars>>

\* Packet p is copy-constructed from the live packet src.
CopyPacket(p, src) ==
    /\ p \in NextFree(packets, NoPacket)
    /\ packets[src].state = "live"
    /\ packets' = [packets EXCEPT ![p] = DynamixelPacketCopy(packets[src])]
    /\ packetArgs' = [packetArgs EXCEPT ![p] = packetArgs[src]]
    /\ UNCHANGED <<heap, releases>>
    /\ UNCHANGED <<checksumVars, tableVars, motorVars>>

\* ~DynamixelPacket(): delete[] packet.
DestroyPacket(p) ==
    /\ packets[p].state = "live"
    /\ packets' = [packets EXCEPT ![p].state = "destroyed"]
    /\ heap' = [heap EXCEPT ![packets[p].packet] = "released"]
    /\ releases' = [releases EXCEPT ![packets[p].packet] = @ + 1]
    /\ UNCHANGED packetArgs
    /\ UNCHANGED <<checksumVars, tableVars, motorVars>>

InitPacket == PacketIdle /\ ChecksumInit({<<>>}) /\ TableIdle /\ MotorIdle

NextPacket ==
    \/ \E p \in 1..NumPackets, b \in 1..NumBuffers, length \in Lengths :
          ConstructNoResponse(p, b, length)
    \/ \E p \in 1..NumPackets, b \in 1..NumBuffers, length \in Lengths,
          responseLength \in ResponseLengths :
          ConstructWithResponse(p, b, length, responseLength)
    \/ \E p \in 1..NumPackets, src \in 1..NumPackets : CopyPacket(p, src)
    \/ \E p \in 1..NumPackets : DestroyPacket(p)

SpecPacket == InitPacket /\ [][NextPacket]_vars

(***************************************************************************)
(* struct DynamixelAccessData, lines 52-58, and struct DynamixelMotorData, *)
(* lines 75-111.  A reference to a DynamixelAccessData is its number.      *)
(***************************************************************************)
\* uint8_t values the constructors are given.
AddressLSBs == {30}
AddressMSBs == {0, 1}
Sizes == {0, 2}
MotorIDs == {0, 1, 254}
\* Conversion factors, as the pairs (torque, angle, velocity) a motor class gives.
Factors == {<<1, 1, 1>>, <<1, 2, 3>>}

\* The constructor storing 1 for a size of 0.
DynamixelAccessDataAtLeastOne(addressLSB, addressMSB, size) ==
    [address |-> <<addressLSB, addressMSB>>, length |-> IF size = 0 THEN 1 ELSE size]

\* DynamixelAccessData(addressLSB, addressMSB, size)
DynamixelAccessData(addressLSB, addressMSB, size) ==
    [address |-> <<addressLSB, addressMSB>>, length |-> size]

\* The constructor binding led to idAccess.
DynamixelMotorDataLedMixedUp(newID, idAccess, ledAccess, torqueEnAccess, currentTorqueAccess, goalAngleAccess, currentAngleAccess, goalVelocityAccess, currentVelocityAccess, torqueConvertFactor, angleConvertFactor, velocityConvertFactor) ==
    [motorID |-> newID, id |-> idAccess, led |-> idAccess,
     torqueEnable |-> torqueEnAccess, currentTorque |-> currentTorqueAccess,
     goalAngle |-> goalAngleAccess, currentAngle |-> currentAngleAccess,
     goalVelocity |-> goalVelocityAccess, currentVelocity |-> currentVelocityAccess,
     valueToTorque |-> torqueConvertFactor, valueToAngle |-> angleConvertFactor,
     valueToVelocity |-> velocityConvertFactor]

\* DynamixelMotorData(newID, the eight access references, the three factors)
DynamixelMotorData(newID, idAccess, ledAccess, torqueEnAccess, currentTorqueAccess, goalAngleAccess, currentAngleAccess, goalVelocityAccess, currentVelocityAccess, torqueConvertFactor, angleConvertFactor, velocityConvertFactor) ==
    [motorID |-> newID, id |-> idAccess, led |-> ledAccess,
     torqueEnable |-> torqueEnAccess, currentTorque |-> currentTorqueAccess,
     goalAngle |-> goalAngleAccess, currentAngle |-> currentAngleAccess,
     goalVelocity |-> goalVelocityAccess, currentVelocity |-> currentVelocityAccess,
     valueToTorque |-> torqueConvertFactor, valueToAngle |-> angleConvertFactor,
     valueToVelocity |-> velocityConvertFactor]

\* Descriptor d is constructed.
ConstructAccess(d, addressLSB, addressMSB, size) ==
    /\ d \in NextFree(access, None)
    /\ access' = [access EXCEPT ![d] = Some(DynamixelAccessData(addressLSB, addressMSB, size))]
    /\ accessArgs' = [accessArgs EXCEPT ![d] =
                          Some([addressLSB |-> addressLSB, addressMSB |-> addressMSB,
                                size |-> size])]
    /\ UNCHANGED <<motor, motorArgs, lastSetID, lastWrittenID>>
    /\ UNCHANGED <<checksumVars, tableVars, packetVars>>

\* The motor data is constructed over existing descriptors: a for the id and
\* the goal registers, b for the led and the current-value registers.
ConstructMotor(newID, a, b, f) ==
    /\ motor = None
    /\ access[a] # None /\ access[b] # None
    /\ motor' = Some(DynamixelMotorData(newID, a, b, a, b, a, b, a, b, f[1], f[2], f[3]))
    /\ motorArgs' = Some([newID |-> newID, a |-> a, b |-> b, f |-> f])
    /\ lastSetID' = Some(newID)
    /\ lastWrittenID' = Some(newID)
    /\ UNCHANGED <<access, accessArgs>>
    /\ UNCHANGED <<checksumVars, tableVars, packetVars>>

\* The set-ID operation of the motor driver: the stored value is updated.
SetID(newID) ==
    /\ motor # None
    /\ motor' = Some([Val(motor) EXCEPT !.motorID = newID])
    /\ lastSetID' = Some(newID)
    /\ lastWrittenID' = Some(newID)
    /\ UNCHANGED <<access, accessArgs, motorArgs>>
    /\ UNCHANGED <<checksumVars, tableVars, packetVars>>

\* A holder of the struct assigns its public field: data.motorID = value.
AssignMotorID(value) ==
    /\ motor # None
    /\ motor' = Some([Val(motor) EXCEPT !.motorID = value])
    /\ lastWrittenID' = Some(value)
    /\ UNCHANGED <<access, accessArgs, motorArgs, lastSetID>>
    /\ UNCHANGED <<checksumVars, tableVars, packetVars>>

InitMotor == MotorIdle /\ ChecksumInit({<<>>}) /\ TableIdle /\ PacketIdle

NextMotor ==
    \/ \E d \in 1..NumAccess, lsb \in AddressLSBs, msb \in AddressMSBs, size \in Sizes :
          ConstructAccess(d, lsb, msb, size)
    \/ \E newID \in MotorIDs, a \in 1..NumAccess, b \in 1..NumAccess, f \in Factors :
          ConstructMotor(newID, a, b, f)
    \/ \E newID \in MotorIDs : SetID(newID)
    \/ \E value \in MotorIDs : AssignMotorID(value)

SpecMotor == InitMotor /\ [][NextMotor]_vars

(***************************************************************************)
(* Arithmetic the statements below are written in, independent of the      *)
(* operators that model the code.                                          *)
(***************************************************************************)
RECURSIVE SumBytes(_)
\* The mathematical sum of the bytes of s.
SumBytes(s) == IF s = <<>> THEN 0 ELSE Head(s) + SumBytes(Tail(s))

\* Bit k of the non-negative number a.
BitOf(a, k) == (a \div (2 ^ k)) % 2

RECURSIVE XorBits(_, _, _)
\* Exclusive or of a and b over bits 0..k-1, bit by bit.
XorBits(a, b, k) ==
    IF k = 0 THEN 0
    ELSE XorBits(a, b, k - 1) + ((BitOf(a, k - 1) + BitOf(b, k - 1)) % 2) * (2 ^ (k - 1))

\* Exclusive or of two numbers below 2^24, byte by byte.
Xor24(a, b) ==
    XorBits(a % 256, b % 256, 8)
    + 256 * XorBits((a \div 256) % 256, (b \div 256) % 256, 8)
    + 65536 * XorBits(a \div 65536, b \div 65536, 8)

RECURSIVE RefCrc(_)
\* The reference recurrence over the whole of s: the accumulator starts at 0,
\* and each byte b gives i = ((acc >> 8) ^ b) & 0xFF and
\* acc = ((acc << 8) ^ crc_table[i]) mod 2^16.
RefCrc(s) ==
    IF s = <<>> THEN 0
    ELSE LET acc == RefCrc(SubSeq(s, 1, Len(s) - 1))
             b == s[Len(s)]
             i == Xor24(acc \div 256, b) % 256
         IN  Xor24(acc * 256, crc_table[i + 1]) % 65536

\* The polynomial the table is claimed to encode, 0x8005 = crc_table[1].
CrcPoly == 32773

RECURSIVE PolyShift(_, _)
\* x after n steps of: if bit 15 is set then ((x << 1) ^ CrcPoly) mod 2^16
\* else (x << 1) mod 2^16.
PolyShift(x, n) ==
    IF n = 0 THEN x
    ELSE PolyShift(IF BitOf(x, 15) = 1
                   THEN Xor24(x * 2, CrcPoly) % 65536
                   ELSE (x * 2) % 65536, n - 1)

\* n bytes 0x00.
Zeros(n) == [k \in 1..n |-> 0]

C2_AppendedSumIsZero ==
    checksum # None =>
        SumBytes(Append(packet_to_check, Val(checksum))) % 256 = 0

\* C2 amended: appending v1Checksum(s) to s and summing the extended sequence
\* modulo 256 yields 255 (0xFF), for every byte sequence s.
C2_AppendedSumIsFF ==
    checksum # None =>
        SumBytes(Append(packet_to_check, Val(checksum))) % 256 = 255

\* A checksum has been computed for a buffer whose sum wraps past 255.
C2_Witness ==
    /\ checksum # None
    /\ SumBytes(packet_to_check) > 255
    /\ SumBytes(Append(packet_to_check, Val(checksum))) % 256 = 255

(***************************************************************************)
(* Claims about crc_compute (under SpecCrc, SpecPair) and crc_table        *)
(* (under SpecTable).                                                      *)
(***************************************************************************)
\* C3: crc_compute(s, len(s)) equals the reference recurrence over s, lies in
\* 0..65535, and is 0x0000 for the empty sequence.
C3_CrcIsReferenceRecurrence ==
    crc # None =>
        /\ Val(crc) = RefCrc(packet_to_check)
        /\ Val(crc) \in 0..65535
        /\ (packet_to_check = <<>> => Val(crc) = 0)

\* The CRC of a buffer of the v2 header bytes has been computed, and its
\* accumulator has used both of its bytes.
C3_Witness ==
    /\ packet_to_check = <<255, 255, 253, 0>>
    /\ crc # None
    /\ Val(crc) > 255

\* C8: for the index read, crc_table[i] is (i << 8) after 8 steps of the
\* shift-and-xor with the polynomial 0x8005, which is crc_table[1]; the entry
\* lies in 0..65535 and crc_table[0] = 0.
C8_TableEncodesPolynomial ==
    entry # None =>
        /\ Val(entry) = PolyShift(idx * 256, 8)
        /\ Val(entry) \in 0..65535
        /\ (idx = 0 => Val(entry) = 0)
        /\ (idx = 1 => Val(entry) = CrcPoly)

\* The last entry of the table has been read.
C8_Witness ==
    /\ idx = 255
    /\ entry = Some(PolyShift(255 * 256, 8))

\* C9: two buffers of one length that differ in exactly one byte position
\* have different CRCs.
C9_OneByteChangeChangesCrc ==
    (crc # None /\ crcOther # None) => Val(crc) # Val(crcOther)

\* Both CRCs of a pair differing in its first byte, two bytes before the end,
\* have been computed.
C9_Witness ==
    /\ crc # None /\ crcOther # None
    /\ Len(packet_to_check) = 3
    /\ packet_to_check[1] # other[1]

\* C10: n bytes 0x00 before s do not change the CRC, for every n >= 0; the CRC
\* of an all-zero buffer is 0x0000, that of the empty buffer.
C10_LeadingZerosIgnored ==
    crc # None =>
        /\ \A n \in 0..MaxPad :
              crc_compute(Zeros(n) \o packet_to_check, n + Len(packet_to_check))
                  = Val(crc)
        /\ ((\A k \in 1..Len(packet_to_check) : packet_to_check[k] = 0)
               => Val(crc) = 0)

\* The CRC of a buffer that starts with 0x00 and does not end there has been
\* computed and is not 0.
C10_Witness ==
    /\ crc # None
    /\ Len(packet_to_check) >= 2
    /\ packet_to_check[1] = 0
    /\ Val(crc) # 0

C5_BufferReleasedExactlyOnce ==
    /\ \A b \in 1..NumBuffers : releases[b] <= 1
    /\ \A p, q \in 1..NumPackets :
          (p # q /\ packets[p].state = "live" /\ packets[q].state = "live")
              => packets[p].packet # packets[q].packet
    /\ (\A p \in 1..NumPackets : packets[p].state # "live")
          => \A b \in 1..NumBuffers : heap[b] # "allocated"

(***************************************************************************)
(* Claims about DynamixelMotorData and DynamixelAccessData (under          *)
(* SpecMotor).                                                             *)
(***************************************************************************)
\* The motor data as its constructor arguments make it, but for motorID.
MotorAsConstructed(m, args) ==
    /\ m.id = args.a /\ m.torqueEnable = args.a
    /\ m.goalAngle = args.a /\ m.goalVelocity = args.a
    /\ m.led = args.b /\ m.currentTorque = args.b
    /\ m.currentAngle = args.b /\ m.currentVelocity = args.b
    /\ m.valueToTorque = args.f[1]
    /\ m.valueToAngle = args.f[2]
    /\ m.valueToVelocity = args.f[3]

\* C6 as stated: the motor identifier is the value given at construction or by
\* the most recent set-ID operation, whatever else is done to the map, direct
\* field access included; every other field is as constructed.
C6_IdOnlyBySetID ==
    motor # None =>
        /\ Val(motor).motorID = Val(lastSetID)
        /\ MotorAsConstructed(Val(motor), Val(motorArgs))

\* C6 amended: the motor identifier is the value given at construction or by
\* the most recent write of it, be it the set-ID operation or an assignment to
\* the public field by a holder; every other field is as constructed.
C6_IdByLastWrite ==
    motor # None =>
        /\ Val(motor).motorID = Val(lastWrittenID)
        /\ MotorAsConstructed(Val(motor), Val(motorArgs))

\* A holder has assigned the field after the last set-ID operation, on a map
\* built over two different descriptors.
C6_Witness ==
    /\ motor # None
    /\ Val(motorArgs).a # Val(motorArgs).b
    /\ lastSetID # lastWrittenID
    /\ Val(motor).motorID = Val(lastWrittenID)

\* C7 as stated: every descriptor that can be constructed has length >= 1.
C7_LengthAtLeastOne ==
    \A d \in 1..NumAccess : access[d] # None => Val(access[d]).length >= 1

\* C7 amended: every descriptor holds, for its whole lifetime, the address
\* bytes and the size it was constructed with; the length is the size given,
\* in 0..255, and a size of 0 is stored as length 0.
C7_DescriptorKeepsGivenFields ==
    \A d \in 1..NumAccess :
        /\ accessArgs[d] # None <=> access[d] # None
        /\ access[d] # None =>
              /\ Val(access[d]).length = Val(accessArgs[d]).size
              /\ Val(access[d]).length \in 0..255
              /\ Val(access[d]).address =
                    <<Val(accessArgs[d]).addressLSB, Val(accessArgs[d]).addressMSB>>

\* A descriptor constructed with size 0 is still read with length 0 after a
\* motor map was built over it and the map's identifier was changed.
C7_Witness ==
    \E d \in 1..NumAccess :
        /\ access[d] # None
        /\ Val(accessArgs[d]).size = 0
        /\ Val(access[d]).length = 0
        /\ motor # None
        /\ Val(motor).id = d
        /\ Val(motor).motorID # Val(motorArgs).newID

====
